---- MODULE Spec2Model ----
(***************************************************************************)
(* West Virginia bill scraper (openstates/wv/bills.py).                    *)
(*                                                                         *)
(* Three state machines over one set of variables:                         *)
(*   Spec      scrape_versions: the three version adapters merged through  *)
(*             the _Url seen-set, run twice on the same scraper object;    *)
(*   SpecUrl   _Url applied to pairs of URLs that are variations of one    *)
(*             another;                                                    *)
(*   SpecVote  scrape_vote: the line-by-line roll-call parser.             *)
(*                                                                         *)
(* Python strings are sequences of one-character strings, so that lower(), *)
(* split(), quote() and unquote() are computed and not assumed.            *)
(***************************************************************************)
EXTENDS Integers, Sequences, FiniteSets, TLC

(***************************************************************************)
(* Characters: chr() / ord() over the 256 byte values.                     *)
(***************************************************************************)
Chr ==
  << "<00>", "<01>", "<02>", "<03>", "<04>", "<05>", "<06>", "<07>", "<08>", "<09>", "<0a>", "<0b>", "<0c>", "<0d>", "<0e>", "<0f>",
     "<10>", "<11>", "<12>", "<13>", "<14>", "<15>", "<16>", "<17>", "<18>", "<19>", "<1a>", "<1b>", "<1c>", "<1d>", "<1e>", "<1f>",
     " ", "!", "\"", "#", "$", "%", "&", "'", "(", ")", "*", "+", ",", "-", ".", "/",
     "0", "1", "2", "3", "4", "5", "6", "7", "8", "9", ":", ";", "<", "=", ">", "?",
     "@", "A", "B", "C", "D", "E", "F", "G", "H", "I", "J", "K", "L", "M", "N", "O",
     "P", "Q", "R", "S", "T", "U", "V", "W", "X", "Y", "Z", "[", "<5c>", "]", "^", "_",
     "<60>", "a", "b", "c", "d", "e", "f", "g", "h", "i", "j", "k", "l", "m", "n", "o",
     "p", "q", "r", "s", "t", "u", "v", "w", "x", "y", "z", "{", "|", "}", "~", "<7f>",
     "<80>", "<81>", "<82>", "<83>", "<84>", "<85>", "<86>", "<87>", "<88>", "<89>", "<8a>", "<8b>", "<8c>", "<8d>", "<8e>", "<8f>",
     "<90>", "<91>", "<92>", "<93>", "<94>", "<95>", "<96>", "<97>", "<98>", "<99>", "<9a>", "<9b>", "<9c>", "<9d>", "<9e>", "<9f>",
     "<a0>", "<a1>", "<a2>", "<a3>", "<a4>", "<a5>", "<a6>", "<a7>", "<a8>", "<a9>", "<aa>", "<ab>", "<ac>", "<ad>", "<ae>", "<af>",
     "<b0>", "<b1>", "<b2>", "<b3>", "<b4>", "<b5>", "<b6>", "<b7>", "<b8>", "<b9>", "<ba>", "<bb>", "<bc>", "<bd>", "<be>", "<bf>",
     "<c0>", "<c1>", "<c2>", "<c3>", "<c4>", "<c5>", "<c6>", "<c7>", "<c8>", "<c9>", "<ca>", "<cb>", "<cc>", "<cd>", "<ce>", "<cf>",
     "<d0>", "<d1>", "<d2>", "<d3>", "<d4>", "<d5>", "<d6>", "<d7>", "<d8>", "<d9>", "<da>", "<db>", "<dc>", "<dd>", "<de>", "<df>",
     "<e0>", "<e1>", "<e2>", "<e3>", "<e4>", "<e5>", "<e6>", "<e7>", "<e8>", "<e9>", "<ea>", "<eb>", "<ec>", "<ed>", "<ee>", "<ef>",
     "<f0>", "<f1>", "<f2>", "<f3>", "<f4>", "<f5>", "<f6>", "<f7>", "<f8>", "<f9>", "<fa>", "<fb>", "<fc>", "<fd>", "<fe>", "<ff>" >>

ChrOf(n) == Chr[n + 1]

OrdTable == [c \in {Chr[i] : i \in 1..256} |-> CHOOSE n \in 0..255 : Chr[n + 1] = c]

OrdOf(c) == OrdTable[c]

SetMin(S) == CHOOSE x \in S : \A y \in S : x <= y

SetMax(S) == CHOOSE x \in S : \A y \in S : y <= x

Digits == {ChrOf(n) : n \in 48..57}

IsUpper(c) == c \in {ChrOf(n) : n \in 65..90}

IsLower(c) == c \in {ChrOf(n) : n \in 97..122}

IsDigit(c) == c \in Digits

IsAlpha(c) == IsUpper(c) \/ IsLower(c)

\* str.lower() on one character
LowerChar(c) == IF IsUpper(c) THEN ChrOf(OrdOf(c) + 32) ELSE c

UpperChar(c) == IF IsLower(c) THEN ChrOf(OrdOf(c) - 32) ELSE c

\* str.lower()
Lower(s) == [i \in 1..Len(s) |-> LowerChar(s[i])]

\* s[i:] for a 1-based position i
From(s, i) == SubSeq(s, i, Len(s))

\* s.find(c, start): 1-based position of the first c at or after start, 0 if none
Find(s, c, start) ==
  LET I == {i \in start..Len(s) : s[i] = c}
  IN  IF I = {} THEN 0 ELSE SetMin(I)

EndsWith(s, p) == Len(s) >= Len(p) /\ SubSeq(s, Len(s) - Len(p) + 1, Len(s)) = p

\* s.split(c) for a one-character separator: always at least one piece
RECURSIVE Split(_, _)
Split(s, c) ==
  LET i == Find(s, c, 1)
  IN  IF i = 0 THEN <<s>>
      ELSE <<SubSeq(s, 1, i - 1)>> \o Split(From(s, i + 1), c)

\* s.split(c, 1)
Split1(s, c) ==
  LET i == Find(s, c, 1)
  IN  IF i = 0 THEN <<s>> ELSE <<SubSeq(s, 1, i - 1), From(s, i + 1)>>

\* s.replace(c, r) for a one-character c and a string r
RECURSIVE Replace(_, _, _)
Replace(s, c, r) ==
  IF s = <<>> THEN <<>>
  ELSE (IF s[1] = c THEN r ELSE <<s[1]>>) \o Replace(Tail(s), c, r)

\* sep.join(parts)
RECURSIVE Join(_, _)
Join(parts, sep) ==
  IF parts = <<>> THEN <<>>
  ELSE IF Len(parts) = 1 THEN parts[1]
  ELSE parts[1] \o sep \o Join(Tail(parts), sep)

RECURSIVE Flatten(_)
Flatten(ss) == IF ss = <<>> THEN <<>> ELSE ss[1] \o Flatten(Tail(ss))

(***************************************************************************)
(* urllib / urlparse of Python 2.7, as imported on lines 7-8.              *)
(***************************************************************************)
HexDigits == {"0","1","2","3","4","5","6","7","8","9",
              "a","b","c","d","e","f","A","B","C","D","E","F"}

HexVal(c) ==
  IF IsDigit(c) THEN OrdOf(c) - 48
  ELSE IF IsUpper(c) THEN OrdOf(c) - 55
  ELSE OrdOf(c) - 87

HexChar(n) == IF n < 10 THEN ChrOf(48 + n) ELSE ChrOf(55 + n)

\* urllib.unquote: every %XX with two hex digits (either case) becomes the
\* character it encodes; a % not followed by two hex digits is kept
RECURSIVE UnquoteBits(_)
UnquoteBits(bits) ==
  IF bits = <<>> THEN <<>>
  ELSE LET item == bits[1]
       IN  (IF Len(item) >= 2 /\ item[1] \in HexDigits /\ item[2] \in HexDigits
            THEN <<ChrOf(16 * HexVal(item[1]) + HexVal(item[2]))>> \o From(item, 3)
            ELSE <<"%">> \o item) \o UnquoteBits(Tail(bits))

Unquote(s) ==
  LET bits == Split(s, "%")
  IN  bits[1] \o UnquoteBits(Tail(bits))

\* urllib.unquote_plus
UnquotePlus(s) == Unquote(Replace(s, "+", <<" ">>))

AlwaysSafe(c) == IsAlpha(c) \/ IsDigit(c) \/ c \in {"_", ".", "-"}

\* '%%%02X' % ord(c)
PctEncode(c) == <<"%", HexChar(OrdOf(c) \div 16), HexChar(OrdOf(c) % 16)>>

\* urllib.quote(s, safe): %XX with upper-case hex digits
Quote(s, safe) ==
  Flatten([i \in 1..Len(s) |->
             IF AlwaysSafe(s[i]) \/ s[i] \in safe THEN <<s[i]>>
             ELSE PctEncode(s[i])])

\* urllib.quote_plus(s)
QuotePlus(s) == Replace(Quote(s, {" "}), " ", <<"+">>)

\* urllib.urlencode of a list of (key, value) pairs
UrlEncode(pairs) ==
  Join([i \in 1..Len(pairs) |->
          QuotePlus(pairs[i][1]) \o <<"=">> \o QuotePlus(pairs[i][2])], <<"&">>)

\* urlparse._splitnetloc(url, 2): the netloc ends at the first of / ? #
SplitNetloc(url) ==
  LET D == {i \in 3..Len(url) : url[i] \in {"/", "?", "#"}}
      delim == IF D = {} THEN Len(url) + 1 ELSE SetMin(D)
  IN  <<SubSeq(url, 3, delim - 1), From(url, delim)>>

\* urlparse.urlsplit, last step: the query is what follows the first ? of
\* the url left after the fragment was taken off
SplitQuery(scheme, netloc, fragment, url) ==
  LET q == Find(url, "?", 1)
  IN  [scheme |-> scheme, netloc |-> netloc,
       path |-> IF q = 0 THEN url ELSE SubSeq(url, 1, q - 1),
       query |-> IF q = 0 THEN <<>> ELSE From(url, q + 1),
       fragment |-> fragment]

\* urlparse.urlsplit: the fragment is what follows the first # of the url
\* left after the netloc was taken off
SplitFragment(scheme, netloc, url) ==
  LET f == Find(url, "#", 1)
  IN  SplitQuery(scheme, netloc,
                 IF f = 0 THEN <<>> ELSE From(url, f + 1),
                 IF f = 0 THEN url ELSE SubSeq(url, 1, f - 1))

\* urlparse.urlsplit: a url that starts with // after its scheme has a netloc
SplitNet(scheme, url) ==
  LET hasNet == Len(url) >= 2 /\ url[1] = "/" /\ url[2] = "/"
      nl == SplitNetloc(url)
  IN  SplitFragment(scheme,
                    IF hasNet THEN nl[1] ELSE <<>>,
                    IF hasNet THEN nl[2] ELSE url)

\* urlparse.urlsplit: what stands before the first : is the scheme when it is
\* http, or when it is made of scheme characters and the rest is not a port
\* number
HasScheme(head, rest) ==
  \/ head = <<"h","t","t","p">>
  \/ /\ \A k \in 1..Len(head) :
          IsAlpha(head[k]) \/ IsDigit(head[k]) \/ head[k] \in {"+", "-", "."}
     /\ (rest = <<>> \/ \E k \in 1..Len(rest) : ~IsDigit(rest[k]))

SplitScheme(url, i) ==
  IF i > 1 /\ HasScheme(SubSeq(url, 1, i - 1), From(url, i + 1))
  THEN SplitNet(Lower(SubSeq(url, 1, i - 1)), From(url, i + 1))
  ELSE SplitNet(<<>>, url)

\* urlparse.urlsplit(url): [scheme, netloc, path, query, fragment]
UrlSplit(url) == SplitScheme(url, Find(url, ":", 1))

UsesParams ==
  { <<"f","t","p">>, <<"h","d","l">>, <<"p","r","o","s","p","e","r","o">>,
    <<"h","t","t","p">>, <<"i","m","a","p">>, <<"h","t","t","p","s">>,
    <<"s","h","t","t","p">>, <<"r","t","s","p">>, <<"r","t","s","p","u">>,
    <<"s","i","p">>, <<"s","i","p","s">>, <<"m","m","s">>, <<>>,
    <<"s","f","t","p">>, <<"t","e","l">> }

\* urlparse._splitparams(url)
SplitParams(url) ==
  LET I == {k \in 1..Len(url) : url[k] = "/"}
      slash == IF I = {} THEN 0 ELSE SetMax(I)
      i == IF slash > 0 THEN Find(url, ";", slash) ELSE Find(url, ";", 1)
  IN  IF i = 0 THEN <<url, <<>>>> ELSE <<SubSeq(url, 1, i - 1), From(url, i + 1)>>

\* urlparse.urlparse: the params are split off the path of the schemes that
\* use them
WithParams(t, sp) ==
  [scheme |-> t.scheme, netloc |-> t.netloc, path |-> sp[1],
   params |-> sp[2], query |-> t.query, fragment |-> t.fragment]

PathAndParams(t) ==
  IF t.scheme \in UsesParams /\ Find(t.path, ";", 1) > 0
  THEN WithParams(t, SplitParams(t.path))
  ELSE WithParams(t, <<t.path, <<>>>>)

\* urlparse.urlparse(url): the 6-tuple ParseResult
UrlParse(url) == PathAndParams(UrlSplit(url))

\* urlparse.urlunparse((scheme, netloc, path, params, query, fragment)) for a
\* non-empty scheme and netloc and a path that starts with /
UrlUnparse(p) ==
  LET url0 == IF p.params = <<>> THEN p.path ELSE p.path \o <<";">> \o p.params
      url1 == <<"/", "/">> \o p.netloc \o url0
      url2 == p.scheme \o <<":">> \o url1
      url3 == IF p.query = <<>> THEN url2 ELSE url2 \o <<"?">> \o p.query
  IN  IF p.fragment = <<>> THEN url3 ELSE url3 \o <<"#">> \o p.fragment

\* urlparse.parse_qsl(qs): pairs split on & and ;, a pair without = or
\* with an empty value is dropped, + and %XX are decoded in name and value
ParseQsl(qs) ==
  LET amp == Split(qs, "&")
      pairs == Flatten([i \in 1..Len(amp) |-> Split(amp[i], ";")])
      nv(k) == Split1(pairs[k], "=")
      Kept == {k \in 1..Len(pairs) : Len(nv(k)) = 2 /\ nv(k)[2] # <<>>}
  IN  [k \in Kept |-> <<Unquote(Replace(nv(k)[1], "+", <<" ">>)),
                        Unquote(Replace(nv(k)[2], "+", <<" ">>))>>]

(***************************************************************************)
(* _Url (lines 18-34).  The key is parts: the ParseResult of the           *)
(* lower-cased url with query replaced by frozenset(parse_qsl(query)) and  *)
(* path by unquote_plus(path).  __eq__ compares parts, __hash__ hashes it, *)
(* so equal keys have equal hashes.                                        *)
(***************************************************************************)
Url(url) ==
  LET parts == UrlParse(Lower(url))
      qsl == ParseQsl(parts.query)
      _query == {qsl[k] : k \in DOMAIN qsl}
      _path == UnquotePlus(parts.path)
  IN  [parts EXCEPT !.query = _query, !.path = _path]


(***************************************************************************)
(* State.                                                                  *)
(***************************************************************************)
VARIABLES
  \* scrape_versions: arguments and the scraper object
  session,             \* session argument, a string
  chamber,             \* "upper" or "lower"
  bill_id,             \* bill_id argument, a string such as "HB 1"
  page,                \* the anchors of the detail page that carry versions
  version_filenames,   \* self._version_filenames: key -> list of (folder, filename)
  vf_default,          \* TRUE: a defaultdict(list) built on line 294; FALSE: a dict from json.load
  guess_count,         \* self.guess_count (line 416; set up outside this file)
  site,                \* what urlopen answered so far, by url (the remote site is fixed)
  \* scrape_versions: locals
  pc,                  \* position in scrape_versions
  res,                 \* res, the list under construction
  cache,               \* cache, the set of _Url keys seen
  gen_i,               \* how many items the running generator has yielded
  filenames,           \* filenames, as looked up by the running generator
  wpd_url,             \* the local url of _scrape_versions_wpd
  run,                 \* number of the running call of scrape_versions
  first_res,           \* what the first call returned
  origin,              \* for each element of res, the adapter it came from
  \* _Url on two variations of one url
  u1, u2, nvar,
  \* scrape_vote
  shape,               \* how the text of the vote document is laid out
  lines,               \* lines = text.splitlines()
  idx,                 \* 1 + the idx of the for loop on line 199
  vote_type,           \* vote_type, "none" for None
  votes,               \* votes: the lists under 'yes', 'no' and 'other'
  date,                \* date, with bound_date telling whether it is bound
  bound_date,
  tally,               \* motion, passed and the three counts, with
  bound_tally,         \* bound_tally telling whether they are bound
  vpc,                 \* position in scrape_vote
  verror,              \* the exception that left scrape_vote
  bill_votes,          \* the votes added to the bill
  \* scrape: _get_version_filenames and the loop over the bills
  cachefile,           \* by chamber, the file /tmp/<chamber>.wv_version_filenames.json
  sc_session,          \* session argument of the running call of scrape
  sc_chamber,          \* chamber argument of the running call of scrape
  vfn,                 \* self._version_filenames as _get_version_filenames set it
  vfn_default,         \* TRUE: the defaultdict of line 294; FALSE: what json.load returned
  traversals,          \* by chamber, how often the ftp listing was traversed
  writes,              \* how often a cache file was written
  spc,                 \* position in scrape and scrape_bill
  links,               \* the bill ids of the links of the two list pages
  link_i,              \* the link the loops of lines 62 and 75 have come to
  bill_html,           \* html of scrape_bill: "complete" or "incomplete"
  fetches,             \* how often scrape_bill fetched the detail page of the bill
  saved,               \* the bill ids handed to save_bill by the running call
  call_no              \* number of the running call of scrape

vars_ver == <<session, chamber, bill_id, page, version_filenames, vf_default,
              guess_count, site, pc, res, cache, gen_i, filenames, wpd_url,
              run, first_res, origin>>

vars_url == <<u1, u2, nvar>>

vars_vote == <<shape, lines, idx, vote_type, votes, date, bound_date, tally,
               bound_tally, vpc, verror, bill_votes>>

vars_run == <<cachefile, sc_session, sc_chamber, vfn, vfn_default, traversals,
              writes, spc, links, link_i, bill_html, fetches, saved, call_no>>

vars == <<vars_ver, vars_url, vars_vote, vars_run>>

(***************************************************************************)
(* Bounds and input pools.                                                 *)
(***************************************************************************)
MaxLinks == 2

MaxEntries == 2

MaxVary == 2

MaxCount == 2

MaxCalls == 2

\* sequences of length 0..n of distinct elements of S
DistinctSeqs(S, n) ==
  {s \in UNION {[1..k -> S] : k \in 0..n} :
     \A i, j \in 1..Len(s) : i # j => s[i] # s[j]}

S_session == <<"2","0","1","1">>

Bills == { [chamber |-> "lower", bill_id |-> <<"H","B"," ","1">>] }

S_Host == <<"w","w","w",".","l","e","g","i","s",".","s","t","a","t","e",".","w","v",".","u","s">>

S_BillsText == <<"/","B","i","l","l","_","S","t","a","t","u","s","/","b","i","l","l","s","_","t","e","x","t",".","c","f","m">>

S_RS == <<"R","S">>

S_htm == <<".","h","t","m">>

S_billdoc == <<"b","i","l","l","d","o","c">>

S_yr == <<"y","r">>

S_sesstype == <<"s","e","s","s","t","y","p","e">>

S_i == <<"i">>

S_folder1 == <<"0","1","-","0","1">>

S_folder2 == <<"0","2","-","0","2">>

S_intr == <<" ","i","n","t","r">>

S_Introduced == <<"I","n","t","r","o","d","u","c","e","d"," ","V","e","r","s","i","o","n">>

\* chamber_name (lines 284, 365)
ChamberName(c) == IF c = "upper" THEN <<"s","e","n","a","t","e">> ELSE <<"H","o","u","s","e">>

\* bill_id.replace(' ', '').lower() (lines 332, 366)
NormalId(b) == Lower(Replace(b, " ", <<>>))

\* bill_id.split() for an id of two words separated by one space
SplitId(b) == Split(b, " ")

\* line 344 - 358: the url guessed for one filename of the index
GuessUrl(fname, sess, b) ==
  LET _filename == Replace(fname, "+", <<"%", "2", "0">>) \o S_htm
      i == SplitId(b)[2]
  IN  UrlUnparse([scheme |-> <<"h","t","t","p">>,
                  netloc |-> S_Host,
                  path |-> S_BillsText,
                  params |-> <<>>,
                  query |-> UrlEncode(<< <<S_billdoc, _filename>>,
                                         <<S_yr, sess>>,
                                         <<S_sesstype, S_RS>>,
                                         <<S_i, i>> >>),
                  fragment |-> <<>>])

\* line 367
WpdRoot(sess) ==
  <<"f","t","p",":","/","/","w","w","w",".","l","e","g","i","s",".","s","t","a","t","e",".","w","v",".","u","s","/","p","u","b","l","i","c","d","o","c","s","/">>
    \o sess \o <<"/">> \o S_RS

\* lines 377 - 378: the next value of the generator's local url
WpdNextUrl(url, c, folder, fname) ==
  LET _filename == Quote(fname \o <<".","w","p","d">>, {"/"})
  IN  Join(<<url, ChamberName(c), folder, _filename>>, <<"/">>)

\* the (folder, filename) pairs the ftp listing can hold for a bill: one
\* version in two dated folders and another version
PairPool(b) ==
  { <<S_folder1, NormalId(b) \o S_intr>>,
    <<S_folder2, NormalId(b) \o S_intr>>,
    <<S_folder2, NormalId(b) \o <<" ","e","n","g">>>> }

\* anchors a detail page can carry: the html version under the endpoint the
\* guess adapter builds, written with another parameter order and %20 for +,
\* the same once more in upper case, and the WordPerfect file on the ftp
\* server in upper case
UpperStr(s) == [k \in 1..Len(s) |-> UpperChar(s[k])]

AnchorPool(b, c, sess) ==
  LET fn == NormalId(b) \o S_intr
      q == UrlEncode(<< <<S_yr, sess>>, <<S_i, SplitId(b)[2]>>,
                        <<S_sesstype, S_RS>>, <<S_billdoc, fn \o S_htm>> >>)
      guessLike == UrlUnparse([scheme |-> <<"h","t","t","p">>, netloc |-> S_Host,
                               path |-> S_BillsText, params |-> <<>>,
                               query |-> Replace(q, "+", <<"%", "2", "0">>),
                               fragment |-> <<>>])
      wpdLike == UpperStr(WpdNextUrl(WpdRoot(sess), c, S_folder1, fn))
  IN  { [kind |-> "html", name |-> S_Introduced, href |-> guessLike],
        [kind |-> "html", name |-> S_Introduced, href |-> UpperStr(guessLike)],
        [kind |-> "wp", name |-> S_Introduced, href |-> wpdLike] }

\* a key of the index that belongs to another bill
OtherKey == <<"h","b","9">>

\* what one urlopen(url, retry_on_404=False) can do: return a page, whose
\* lower-cased text holds some of the not_available phrases, raise
\* scrapelib.HTTPError, or raise anything else
NotAvailable == {"let us know that the text for", "is not available"}

Responses ==
  { [status |-> "ok", html |-> {}],
    [status |-> "ok", html |-> {"let us know that the text for"}],
    [status |-> "ok", html |-> {"is not available"}],
    [status |-> "HTTPError", html |-> {}],
    [status |-> "error", html |-> {}] }

(***************************************************************************)
(* The adapters.                                                           *)
(***************************************************************************)
\* _scrape_versions_normally (lines 316 - 325): the 'HTML -' anchors in page
\* order, then the 'WordPerfect' anchors in page order
Descriptor(a) ==
  [name |-> a.name, url |-> a.href,
   mimetype |-> IF a.kind = "html" THEN "text/html" ELSE "application/wordperfect"]

NormallyYields(p) ==
  LET IsHtmlAnchor(a) == a.kind = "html"
      IsWpAnchor(a) == a.kind = "wp"
      html == SelectSeq(p, IsHtmlAnchor)
      wp == SelectSeq(p, IsWpAnchor)
  IN  [k \in 1..Len(html) |-> Descriptor(html[k])] \o
      [k \in 1..Len(wp) |-> Descriptor(wp[k])]

\* self._version_filenames[_bill_id] inside try / except KeyError (lines
\* 335 - 340, 369 - 374): a defaultdict creates and stores an empty list for
\* a missing key, a plain dict raises KeyError and the generator returns
LookupFiles(vf, dflt, key) == IF key \in DOMAIN vf THEN vf[key] ELSE <<>>

LookupStore(vf, dflt, key) ==
  IF key \notin DOMAIN vf /\ dflt THEN vf @@ (key :> <<>>) ELSE vf

\* _scrape_versions_guess_url (lines 342 - 359): the (filename, url) pairs
GuessYields(files, sess, b) ==
  [k \in 1..Len(files) |-> <<files[k][2], GuessUrl(files[k][2], sess, b)>>]

\* _scrape_versions_wpd (lines 376 - 381): the descriptors, url being the
\* generator's local that line 378 rebinds on every iteration
RECURSIVE WpdYieldsFrom(_, _, _)
WpdYieldsFrom(url, files, c) ==
  IF files = <<>> THEN <<>>
  ELSE LET next == WpdNextUrl(url, c, files[1][1], files[1][2])
       IN  <<[name |-> files[1][2], url |-> next,
              mimetype |-> "application/wordperfect"]>>
           \o WpdYieldsFrom(next, Tail(files), c)

WpdYields(files, sess, c) == WpdYieldsFrom(WpdRoot(sess), files, c)

\* the keys of the descriptors of a list
KeysOf(r) == {Url(r[k].url) : k \in 1..Len(r)}

(***************************************************************************)
(* scrape_versions (lines 383 - 430), one loop iteration per step.         *)
(***************************************************************************)
\* the variables of the other two machines while this one runs
IdleUrl == u1 = <<>> /\ u2 = <<>> /\ nvar = 0

NoTally == [motion |-> <<>>, passed |-> FALSE, yes_count |-> 0, no_count |-> 0,
            other_count |-> 0]

NoVotes == [yes |-> <<>>, no |-> <<>>, other |-> <<>>]

IdleVote ==
  /\ shape = <<>> /\ lines = <<>> /\ idx = 1 /\ vote_type = "none"
  /\ votes = NoVotes /\ date = <<>> /\ bound_date = FALSE
  /\ tally = NoTally /\ bound_tally = FALSE
  /\ vpc = "idle" /\ verror = "" /\ bill_votes = <<>>

IdleRun ==
  /\ cachefile = <<>> /\ sc_session = <<>> /\ sc_chamber = ""
  /\ vfn = <<>> /\ vfn_default = FALSE /\ traversals = <<>> /\ writes = 0
  /\ spc = "idle" /\ links = <<>> /\ link_i = 1 /\ bill_html = "" /\ fetches = 0
  /\ saved = <<>> /\ call_no = 0

Init ==
  /\ session = S_session
  /\ \E b \in Bills : chamber = b.chamber /\ bill_id = b.bill_id
  /\ page \in DistinctSeqs(AnchorPool(bill_id, chamber, session), MaxLinks)
  /\ \E fs \in DistinctSeqs(PairPool(bill_id), MaxEntries) :
       version_filenames =
         IF fs = <<>> THEN (OtherKey :> <<CHOOSE p \in PairPool(bill_id) : TRUE>>)
         ELSE (OtherKey :> <<CHOOSE p \in PairPool(bill_id) : TRUE>>)
              @@ (NormalId(bill_id) :> fs)
  /\ vf_default \in BOOLEAN
  /\ guess_count = 0
  /\ site = <<>>
  /\ pc = "normally"
  /\ res = <<>>
  /\ cache = {}
  /\ gen_i = 1
  /\ filenames = <<>>
  /\ wpd_url = <<>>
  /\ run = 1
  /\ first_res = <<>>
  /\ origin = <<>>
  /\ IdleUrl
  /\ IdleVote
  /\ IdleRun

\* AddUnseen without the membership test of lines 394 and 426
AddAlways(data, from) ==
  /\ cache' = cache \cup {Url(data.url)}
  /\ res' = Append(res, data)
  /\ origin' = Append(origin, from)

\* AddUnseen with cache.add moved in front of the membership test
AddSeenFirst(data, from) ==
  /\ cache' = cache \cup {Url(data.url)}
  /\ UNCHANGED <<res, origin>>

\* AddUnseen with res.insert(0, data) in place of res.append(data)
AddInFront(data, from) ==
  LET _url == Url(data.url)
  IN  IF _url \notin cache
      THEN /\ cache' = cache \cup {_url}
           /\ res' = <<data>> \o res
           /\ origin' = <<from>> \o origin
      ELSE UNCHANGED <<cache, res, origin>>

\* lines 393 - 396 and 425 - 428: add the descriptor unless its key was seen
AddUnseen(data, from) ==
  LET _url == Url(data.url)
  IN  IF _url \notin cache
      THEN /\ cache' = cache \cup {_url}
           /\ res' = Append(res, data)
           /\ origin' = Append(origin, from)
      ELSE UNCHANGED <<cache, res, origin>>

\* lines 391 - 396: one descriptor of the linked-documents adapter
ScrapeNormally ==
  /\ pc = "normally"
  /\ gen_i <= Len(NormallyYields(page))
  /\ AddUnseen(NormallyYields(page)[gen_i], "normally")
  /\ gen_i' = gen_i + 1
  /\ UNCHANGED <<session, chamber, bill_id, page, version_filenames, vf_default,
                 guess_count, site, pc, filenames, wpd_url, run, first_res>>
  /\ UNCHANGED <<vars_url, vars_vote, vars_run>>

\* lines 401, 332 - 340: the first next() of _scrape_versions_guess_url
StartGuess ==
  /\ pc = "normally"
  /\ gen_i > Len(NormallyYields(page))
  /\ filenames' = LookupFiles(version_filenames, vf_default, NormalId(bill_id))
  /\ version_filenames' = LookupStore(version_filenames, vf_default, NormalId(bill_id))
  /\ pc' = "guess"
  /\ gen_i' = 1
  /\ UNCHANGED <<session, chamber, bill_id, page, vf_default, guess_count, site,
                 res, cache, wpd_url, run, first_res, origin>>
  /\ UNCHANGED <<vars_url, vars_vote, vars_run>>

\* the url of the candidate the guess adapter yields next
Candidate == GuessUrl(filenames[gen_i][2], session, bill_id)

\* line 404, key already seen: the candidate is not fetched
GuessSeen ==
  /\ pc = "guess"
  /\ gen_i <= Len(filenames)
  /\ Url(Candidate) \in cache
  /\ gen_i' = gen_i + 1
  /\ UNCHANGED <<session, chamber, bill_id, page, version_filenames, vf_default,
                 guess_count, site, pc, res, cache, filenames, wpd_url, run,
                 first_res, origin>>
  /\ UNCHANGED <<vars_url, vars_vote, vars_run>>

\* line 406: urlopen(url, retry_on_404=False); the site answers one url the
\* same way every time
Fetch(url, r) ==
  /\ r \in Responses
  /\ IF url \in DOMAIN site THEN r = site[url] /\ site' = site
     ELSE site' = site @@ (url :> r)

\* GuessHTTPError without the except clause of line 407
GuessHTTPErrorRaises ==
  /\ pc = "guess"
  /\ gen_i <= Len(filenames)
  /\ Url(Candidate) \notin cache
  /\ \E r \in Responses : Fetch(Candidate, r) /\ r.status = "HTTPError"
  /\ pc' = "error"
  /\ UNCHANGED <<session, chamber, bill_id, page, version_filenames, vf_default,
                 guess_count, res, cache, gen_i, filenames, wpd_url, run,
                 first_res, origin>>
  /\ UNCHANGED <<vars_url, vars_vote, vars_run>>

\* lines 407 - 410: scrapelib.HTTPError, the candidate is skipped
GuessHTTPError ==
  /\ pc = "guess"
  /\ gen_i <= Len(filenames)
  /\ Url(Candidate) \notin cache
  /\ \E r \in Responses : Fetch(Candidate, r) /\ r.status = "HTTPError"
  /\ gen_i' = gen_i + 1
  /\ UNCHANGED <<session, chamber, bill_id, page, version_filenames, vf_default,
                 guess_count, pc, res, cache, filenames, wpd_url, run, first_res,
                 origin>>
  /\ UNCHANGED <<vars_url, vars_vote, vars_run>>

\* line 406 raising anything but scrapelib.HTTPError: not caught on line 407,
\* the exception leaves scrape_versions
GuessError ==
  /\ pc = "guess"
  /\ gen_i <= Len(filenames)
  /\ Url(Candidate) \notin cache
  /\ \E r \in Responses : Fetch(Candidate, r) /\ r.status = "error"
  /\ pc' = "error"
  /\ UNCHANGED <<session, chamber, bill_id, page, version_filenames, vf_default,
                 guess_count, res, cache, gen_i, filenames, wpd_url, run,
                 first_res, origin>>
  /\ UNCHANGED <<vars_url, vars_vote, vars_run>>

\* lines 412 - 414: for s in not_available: if s not in html: continue.
\* The continue belongs to the inner for loop, so the loop ends normally
\* whatever html holds and line 416 is reached: the candidate is never skipped.
SkipsCandidate(html) == FALSE

\* lines 411 - 420: the page was fetched
GuessFetched ==
  /\ pc = "guess"
  /\ gen_i <= Len(filenames)
  /\ Url(Candidate) \notin cache
  /\ \E r \in Responses :
       /\ Fetch(Candidate, r)
       /\ r.status = "ok"
       /\ IF SkipsCandidate(r.html)
          THEN UNCHANGED <<guess_count, cache, res, origin>>
          ELSE /\ guess_count' = guess_count + 1
               /\ cache' = cache \cup {Url(Candidate)}
               /\ res' = Append(res, [url |-> Candidate,
                                      name |-> filenames[gen_i][2],
                                      mimetype |-> "text/html"])
               /\ origin' = Append(origin, "guess")
  /\ gen_i' = gen_i + 1
  /\ UNCHANGED <<session, chamber, bill_id, page, version_filenames, vf_default,
                 pc, filenames, wpd_url, run, first_res>>
  /\ UNCHANGED <<vars_url, vars_vote, vars_run>>

\* lines 423, 365 - 374: the first next() of _scrape_versions_wpd
StartWpd ==
  /\ pc = "guess"
  /\ gen_i > Len(filenames)
  /\ filenames' = LookupFiles(version_filenames, vf_default, NormalId(bill_id))
  /\ version_filenames' = LookupStore(version_filenames, vf_default, NormalId(bill_id))
  /\ wpd_url' = WpdRoot(session)
  /\ pc' = "wpd"
  /\ gen_i' = 1
  /\ UNCHANGED <<session, chamber, bill_id, page, vf_default, guess_count, site,
                 res, cache, run, first_res, origin>>
  /\ UNCHANGED <<vars_url, vars_vote, vars_run>>

\* lines 376 - 381 and 425 - 428: one descriptor of the legacy-index adapter
ScrapeWpd ==
  /\ pc = "wpd"
  /\ gen_i <= Len(filenames)
  /\ wpd_url' = WpdNextUrl(wpd_url, chamber, filenames[gen_i][1], filenames[gen_i][2])
  /\ AddUnseen([name |-> filenames[gen_i][2], url |-> wpd_url',
                mimetype |-> "application/wordperfect"], "wpd")
  /\ gen_i' = gen_i + 1
  /\ UNCHANGED <<session, chamber, bill_id, page, version_filenames, vf_default,
                 guess_count, site, pc, filenames, run, first_res>>
  /\ UNCHANGED <<vars_url, vars_vote, vars_run>>

\* line 430: return res
Return ==
  /\ pc = "wpd"
  /\ gen_i > Len(filenames)
  /\ pc' = "done"
  /\ first_res' = IF run = 1 THEN res ELSE first_res
  /\ UNCHANGED <<session, chamber, bill_id, page, version_filenames, vf_default,
                 guess_count, site, res, cache, gen_i, filenames, wpd_url, run,
                 origin>>
  /\ UNCHANGED <<vars_url, vars_vote, vars_run>>

\* Again with a seen-set that outlives the call
AgainKeepCache ==
  /\ pc = "done"
  /\ run < 2
  /\ run' = run + 1
  /\ pc' = "normally"
  /\ res' = <<>>
  /\ origin' = <<>>
  /\ gen_i' = 1
  /\ filenames' = <<>>
  /\ wpd_url' = <<>>
  /\ UNCHANGED <<session, chamber, bill_id, page, version_filenames, vf_default,
                 guess_count, site, first_res, cache>>
  /\ UNCHANGED <<vars_url, vars_vote, vars_run>>

\* lines 387 - 388: scrape_versions is called once more on the same scraper
\* object with the same arguments; res and cache are new objects
Again ==
  /\ pc = "done"
  /\ run < 2
  /\ run' = run + 1
  /\ pc' = "normally"
  /\ res' = <<>>
  /\ cache' = {}
  /\ origin' = <<>>
  /\ gen_i' = 1
  /\ filenames' = <<>>
  /\ wpd_url' = <<>>
  /\ UNCHANGED <<session, chamber, bill_id, page, version_filenames, vf_default,
                 guess_count, site, first_res>>
  /\ UNCHANGED <<vars_url, vars_vote, vars_run>>

Next ==
  \/ ScrapeNormally
  \/ StartGuess
  \/ GuessSeen
  \/ GuessHTTPError
  \/ GuessError
  \/ GuessFetched
  \/ StartWpd
  \/ ScrapeWpd
  \/ Return
  \/ Again

Spec == Init /\ [][Next]_vars

(***************************************************************************)
(* _Url on variations of one url.                                          *)
(***************************************************************************)
BaseUrls ==
  { <<"h","t","t","p",":","/","/","w","v",".","u","s","/","B","i","l","l","/","t","e","x","t",".","c","f","m","?","d","o","c","=","h","b","1","&","y","r","=","1","1">>,
    <<"f","t","p",":","/","/","w","v",".","u","s","/","H","o","u","s","e","/","h","b","1"," ","i","n","t","r",".","w","p","d">>,
    <<"h","t","t","p",":","/","/","w","v",".","u","s","/","a","%","2","f","b","?","i","=","1","&","j","=","a","+","b">> }

\* position of the first character after the netloc of an absolute url
PathStart(u) ==
  LET c == Find(u, ":", 1)
  IN  Len(u) - Len(SplitNetloc(From(u, c + 1))[2]) + 1

\* position i lies inside a %XX escape of u
InEscape(u, i) ==
  \E k \in {i - 2, i - 1, i} :
     /\ k >= 1 /\ k + 2 <= Len(u)
     /\ u[k] = "%" /\ u[k + 1] \in HexDigits /\ u[k + 2] \in HexDigits

\* u with the letter at position i written in the other case
FlipCase(u, i) ==
  [u EXCEPT ![i] = IF IsUpper(u[i]) THEN LowerChar(u[i]) ELSE UpperChar(u[i])]

\* u with the literal character at position i written as its %XX escape
EncodeAt(u, i) ==
  SubSeq(u, 1, i - 1) \o PctEncode(u[i]) \o From(u, i + 1)

\* u with the query parameters k and k+1 exchanged
SwapParams(u, k) ==
  LET q == Find(u, "?", 1)
      ps == Split(From(u, q + 1), "&")
      sw == [j \in 1..Len(ps) |-> IF j = k THEN ps[k + 1]
                                  ELSE IF j = k + 1 THEN ps[k] ELSE ps[j]]
  IN  SubSeq(u, 1, q) \o Join(sw, <<"&">>)

NumParams(u) ==
  LET q == Find(u, "?", 1)
  IN  IF q = 0 THEN 0 ELSE Len(Split(From(u, q + 1), "&"))

IdleVersions ==
  /\ session = <<>> /\ chamber = "lower" /\ bill_id = <<>> /\ page = <<>>
  /\ version_filenames = <<>> /\ vf_default = FALSE /\ guess_count = 0
  /\ site = <<>> /\ pc = "idle" /\ res = <<>> /\ cache = {} /\ gen_i = 1
  /\ filenames = <<>> /\ wpd_url = <<>> /\ run = 1 /\ first_res = <<>>
  /\ origin = <<>>

InitUrl ==
  /\ u1 \in BaseUrls
  /\ u2 = u1
  /\ nvar = 0
  /\ IdleVersions
  /\ IdleVote
  /\ IdleRun

\* u2 becomes a url that differs from it in the case of one letter (a hex
\* digit of an escape included)
VaryCase ==
  /\ nvar < MaxVary
  /\ \E i \in 1..Len(u2) : IsAlpha(u2[i]) /\ u2' = FlipCase(u2, i)
  /\ nvar' = nvar + 1
  /\ UNCHANGED u1
  /\ UNCHANGED <<vars_ver, vars_vote, vars_run>>

\* u2 becomes a url in which one literal letter, digit, _ . - or space of
\* the path or the query is written as its escape
VaryEncoding ==
  /\ nvar < MaxVary
  /\ \E i \in PathStart(u2)..Len(u2) :
       /\ AlwaysSafe(u2[i]) \/ u2[i] = " "
       /\ ~InEscape(u2, i)
       /\ u2' = EncodeAt(u2, i)
  /\ nvar' = nvar + 1
  /\ UNCHANGED u1
  /\ UNCHANGED <<vars_ver, vars_vote, vars_run>>

\* u2 becomes a url with two neighbouring query parameters exchanged
VaryOrder ==
  /\ nvar < MaxVary
  /\ \E k \in 1..(NumParams(u2) - 1) : u2' = SwapParams(u2, k)
  /\ nvar' = nvar + 1
  /\ UNCHANGED u1
  /\ UNCHANGED <<vars_ver, vars_vote, vars_run>>

NextUrl == VaryCase \/ VaryEncoding \/ VaryOrder

SpecUrl == InitUrl /\ [][NextUrl]_vars

\* C7: two urls that differ only in letter case, in the percent-encoding of
\* characters or in the order of the query parameters have equal _Url keys
\* (and so equal hashes, the hash being computed from the key).
C7_VariationsHaveEqualKeys == Url(u1) = Url(u2)

(***************************************************************************)
(* Properties of scrape_versions.                                          *)
(***************************************************************************)
Range(s) == {s[k] : k \in 1..Len(s)}

\* the index entry of the bill, as both index adapters look it up
BillFiles == LookupFiles(version_filenames, vf_default, NormalId(bill_id))

Linked == NormallyYields(page)

Legacy == WpdYields(BillFiles, session, chamber)

\* the elements of res that came from one adapter, in the order of res
RECURSIVE PickFrom(_, _, _)
PickFrom(r, o, from) ==
  IF r = <<>> THEN <<>>
  ELSE (IF o[1] = from THEN <<r[1]>> ELSE <<>>) \o PickFrom(Tail(r), Tail(o), from)

\* a is b with some elements left out
RECURSIVE IsSubseq(_, _)
IsSubseq(a, b) ==
  IF a = <<>> THEN TRUE
  ELSE IF b = <<>> THEN FALSE
  ELSE IF a[1] = b[1] THEN IsSubseq(Tail(a), Tail(b))
  ELSE IsSubseq(a, Tail(b))

AdapterRank(from) == IF from = "normally" THEN 1 ELSE IF from = "guess" THEN 2 ELSE 3

\* C1: the list under construction, and so the list returned, never holds
\* two descriptors with equal _Url keys, whichever adapters they came from.
C1_NoDuplicateKeys ==
  \A i, j \in 1..Len(res) : i < j => Url(res[i].url) # Url(res[j].url)

\* a call returned after the page linked one document under two spellings of its url and the
\* index held a file whose guessed url the page links
C1_Witness ==
  /\ pc = "done"
  /\ \E i, j \in 1..Len(Linked) : i < j /\ Url(Linked[i].url) = Url(Linked[j].url)
  /\ \E k \in 1..Len(BillFiles) :
       Url(GuessUrl(BillFiles[k][2], session, bill_id)) \in KeysOf(Linked)
  /\ Len(res) >= 2

\* C2: a guessed candidate whose fetched page holds a not_available phrase
\* is skipped: it is not in res and its key is not in the seen-set.
C2_MarkerSkipped ==
  \A u \in DOMAIN site :
     (site[u].status = "ok" /\ site[u].html \cap NotAvailable # {}) =>
        /\ Url(u) \notin cache
        /\ \A k \in 1..Len(res) : res[k].url # u

\* C3: a descriptor of the linked-documents or the legacy-index adapter is
\* appended exactly when its key differs from the keys of all descriptors
\* already in res; so the returned list holds a descriptor for every key
\* either adapter yielded, and a legacy descriptor whose key a linked
\* descriptor has is absent while the linked one is present.
C3_Step ==
  /\ (pc = "normally" /\ gen_i <= Len(Linked)) =>
        res' = IF Url(Linked[gen_i].url) \notin KeysOf(res)
               THEN Append(res, Linked[gen_i]) ELSE res
  /\ (pc = "wpd" /\ gen_i <= Len(Legacy)) =>
        res' = IF Url(Legacy[gen_i].url) \notin KeysOf(res)
               THEN Append(res, Legacy[gen_i]) ELSE res

C3_Returned ==
  pc = "done" =>
    /\ \A d \in Range(Linked) \cup Range(Legacy) : Url(d.url) \in KeysOf(res)
    /\ \A k \in 1..Len(Linked) :
         (\A l \in 1..(k - 1) : Url(Linked[l].url) # Url(Linked[k].url))
            => Linked[k] \in Range(res)
    /\ \A k \in 1..Len(Legacy) :
         IF Url(Legacy[k].url) \in KeysOf(Linked)
         THEN Legacy[k] \notin Range(res)
         ELSE (\A l \in 1..(k - 1) : Url(Legacy[l].url) # Url(Legacy[k].url))
                 => Legacy[k] \in Range(res)

C3_OnlyDuplicatesDropped == [][C3_Step]_vars /\ []C3_Returned

\* a call returned: one legacy descriptor was dropped for a linked one with
\* the same key, another one with a new key was appended
C3_Witness ==
  /\ pc = "done"
  /\ \E k \in 1..Len(Legacy) : Url(Legacy[k].url) \in KeysOf(Linked)
  /\ \E k \in 1..Len(Legacy) : Legacy[k] \in Range(res)

\* C4: res only grows at its end, linked descriptors come before guessed
\* ones and guessed ones before legacy ones, and the descriptors of one
\* adapter stand in the order in which the adapter yielded them.
C4_Step ==
  \/ pc = "done" /\ pc' = "normally" /\ res' = <<>>
  \/ Len(res') >= Len(res) /\ SubSeq(res', 1, Len(res)) = res

C4_Order ==
  /\ Len(origin) = Len(res)
  /\ \A i, j \in 1..Len(res) : i < j => AdapterRank(origin[i]) <= AdapterRank(origin[j])
  /\ IsSubseq(PickFrom(res, origin, "normally"), Linked)
  /\ LET g == GuessYields(BillFiles, session, bill_id)
     IN  IsSubseq(PickFrom(res, origin, "guess"),
                  [k \in 1..Len(g) |-> [url |-> g[k][2], name |-> g[k][1],
                                        mimetype |-> "text/html"]])
  /\ IsSubseq(PickFrom(res, origin, "wpd"), Legacy)

C4_AppendOnlyInAdapterOrder == [][C4_Step]_vars /\ []C4_Order

\* a call returned a list with descriptors of all three adapters, two of
\* them from the legacy index
C4_Witness ==
  /\ pc = "done"
  /\ \E i, j, k, l \in 1..Len(res) :
       /\ i < j /\ j < k /\ k < l
       /\ origin[i] = "normally" /\ origin[j] = "guess"
       /\ origin[k] = "wpd" /\ origin[l] = "wpd"

\* C5: when the fetch of a guessed candidate raises HTTPError, res and the
\* seen-set stay as they are, no error leaves scrape_versions, and the loop
\* goes on with the candidate after it (and so, after the last one, with
\* the legacy-index adapter).
C5_Step ==
  (/\ pc = "guess" /\ gen_i <= Len(filenames)
   /\ Url(Candidate) \notin cache
   /\ Candidate \in DOMAIN site' /\ site'[Candidate].status = "HTTPError")
  => /\ res' = res /\ cache' = cache
     /\ pc' = "guess" /\ gen_i' = gen_i + 1 /\ filenames' = filenames

C5_HTTPErrorSkipsCandidateOnly == [][C5_Step]_vars

\* a call returned after one candidate failed with HTTPError: a later
\* candidate and a legacy descriptor are in the list
C5_Witness ==
  /\ pc = "done"
  /\ \E k \in 1..Len(BillFiles) :
       LET u == GuessUrl(BillFiles[k][2], session, bill_id)
       IN  /\ u \in DOMAIN site /\ site[u].status = "HTTPError"
           /\ \E l \in (k + 1)..Len(BillFiles), m \in 1..Len(res) :
                 origin[m] = "guess" /\ res[m].name = BillFiles[l][2]
  /\ \E m \in 1..Len(res) : origin[m] = "wpd"

\* C6: the second call of scrape_versions with the same arguments on the
\* same scraper, against the same site, returns the list the first returned.
C6_SecondRunSameResult == (pc = "done" /\ run > 1) => res = first_res

\* the second call returned a list of at least two descriptors although the
\* first call counted a guess and stored an empty list in the index
C6_Witness ==
  /\ pc = "done" /\ run > 1
  /\ Len(res) >= 2
  /\ guess_count >= 2
  /\ vf_default

(***************************************************************************)
(* scrape_vote (lines 189 - 267): string and regular-expression helpers.   *)
(***************************************************************************)
\* what \s matches and what strip() removes
Whitespace == {" ", ChrOf(9), ChrOf(10), ChrOf(11), ChrOf(12), ChrOf(13)}

\* last position of the run of characters of class C that starts at i
\* (i - 1 when s[i] is not in C)
RunEnd(s, i, C) ==
  LET J == {j \in i..Len(s) : \A k \in i..j : s[k] \in C}
  IN  IF J = {} THEN i - 1 ELSE SetMax(J)

\* s[i:].startswith(lit)
MatchLit(s, i, lit) ==
  i >= 1 /\ i + Len(lit) - 1 <= Len(s) /\ SubSeq(s, i, i + Len(lit) - 1) = lit

AllDigits(s) == s # <<>> /\ \A k \in 1..Len(s) : IsDigit(s[k])

\* int(s) for a string of digits
RECURSIVE ParseInt(_)
ParseInt(s) ==
  IF s = <<>> THEN 0
  ELSE 10 * ParseInt(SubSeq(s, 1, Len(s) - 1)) + (OrdOf(s[Len(s)]) - 48)

\* str(n) for n >= 0
RECURSIVE Dec(_)
Dec(n) == IF n < 10 THEN <<ChrOf(48 + n)>> ELSE Dec(n \div 10) \o <<ChrOf(48 + (n % 10))>>

\* s.rstrip(), s.strip()
RStrip(s) ==
  LET K == {k \in 1..Len(s) : s[k] \notin Whitespace}
  IN  IF K = {} THEN <<>> ELSE SubSeq(s, 1, SetMax(K))

Strip(s) ==
  LET K == {k \in 1..Len(s) : s[k] \notin Whitespace}
  IN  IF K = {} THEN <<>> ELSE SubSeq(s, SetMin(K), SetMax(K))

\* s.split(sep) for a separator string: always at least one piece
RECURSIVE SplitStr(_, _)
SplitStr(s, sep) ==
  LET I == {i \in 1..Len(s) : MatchLit(s, i, sep)}
  IN  IF I = {} THEN <<s>>
      ELSE <<SubSeq(s, 1, SetMin(I) - 1)>>
           \o SplitStr(From(s, SetMin(I) + Len(sep)), sep)

S_3sp == <<" ", " ", " ">>

\* the stripped, non-empty pieces of line.split('   ') (lines 237 - 240, 249 - 252)
Pieces(line) ==
  LET raw == SplitStr(line, S_3sp)
      stripped == [k \in 1..Len(raw) |-> Strip(raw[k])]
      NonEmpty(x) == x # <<>>
  IN  SelectSeq(stripped, NonEmpty)

\* line 201: re.search(r'(\d+)/(\d+)/(\d{4,4})$', line); the start of the
\* leftmost match, 0 if there is none
DateMatch(line) ==
  LET I == {i \in 1..Len(line) :
              LET p == Split(From(line, i), "/")
              IN  /\ Len(p) = 3
                  /\ AllDigits(p[1]) /\ AllDigits(p[2])
                  /\ AllDigits(p[3]) /\ Len(p[3]) = 4}
  IN  IF I = {} THEN 0 ELSE SetMin(I)


\* line 203: datetime.strptime(s, "%m/%d/%Y") succeeds
StrptimeOk(s) ==
  LET p == Split(s, "/")
      m == ParseInt(p[1])
      d == ParseInt(p[2])
      y == ParseInt(p[3])
      DaysInMonth ==
        IF m \in {4, 6, 9, 11} THEN 30
        ELSE IF m # 2 THEN 31
        ELSE IF (y % 4 = 0 /\ y % 100 # 0) \/ y % 400 = 0 THEN 29 ELSE 28
  IN  /\ Len(p[1]) <= 2 /\ Len(p[2]) <= 2
      /\ m >= 1 /\ m <= 12 /\ y >= 1
      /\ d >= 1 /\ d <= DaysInMonth

S_YEAS == <<"Y","E","A","S">>

S_NAYS == <<"N","A","Y","S">>

S_NOTVOTING == <<"N","O","T"," ","V","O","T","I","N","G">>

S_EXCUSED == <<"E","X","C","U","S","E","D">>

S_PAIRED == <<"P","A","I","R","E","D">>

S_ADOPTED == <<"A","D","O","P","T","E","D">>

S_PASSED == <<"P","A","S","S","E","D">>

S_YEA == <<"Y","E","A">>

S_NAY == <<"N","A","Y">>

\* one step of the tally pattern: word, ': ', digits; [ok, val, end]
CountAt(line, i, word) ==
  LET lit == word \o <<":", " ">>
      a == i + Len(lit)
      b == RunEnd(line, a, Digits)
  IN  IF MatchLit(line, i, lit) /\ b >= a
      THEN [ok |-> TRUE, val |-> ParseInt(SubSeq(line, a, b)), end |-> b]
      ELSE [ok |-> FALSE, val |-> 0, end |-> 0]

\* lines 206 - 208: re.match(r'\s+YEAS: (\d+)\s+NAYS: (\d+)\s+NOT VOTING: (\d+)', line)
TallyMatch(line) ==
  LET s1 == RunEnd(line, 1, Whitespace)
      y == CountAt(line, s1 + 1, S_YEAS)
      s2 == RunEnd(line, y.end + 1, Whitespace)
      n == CountAt(line, s2 + 1, S_NAYS)
      s3 == RunEnd(line, n.end + 1, Whitespace)
      o == CountAt(line, s3 + 1, S_NOTVOTING)
  IN  IF /\ s1 >= 1 /\ y.ok
         /\ s2 >= y.end + 1 /\ n.ok
         /\ s3 >= n.end + 1 /\ o.ok
      THEN [ok |-> TRUE, yes |-> y.val, no |-> n.val, other |-> o.val]
      ELSE [ok |-> FALSE, yes |-> 0, no |-> 0, other |-> 0]

\* line 214: re.search(r'EXCUSED: (\d+)', line); [ok, val]
ExcusedMatch(line) ==
  LET I == {i \in 1..Len(line) : CountAt(line, i, S_EXCUSED).ok}
  IN  IF I = {} THEN [ok |-> FALSE, val |-> 0]
      ELSE [ok |-> TRUE, val |-> CountAt(line, SetMin(I), S_EXCUSED).val]

\* VoteTypeOf with 'EXCUSED' mapped to 'no'
VoteTypeExcusedAsNo ==
  << <<S_YEAS, "yes">>, <<S_NAYS, "no">>, <<S_NOTVOTING, "other">>,
     <<S_EXCUSED, "no">>, <<S_PAIRED, "paired">> >>

\* lines 229 - 233
VoteTypeOf ==
  << <<S_YEAS, "yes">>, <<S_NAYS, "no">>, <<S_NOTVOTING, "other">>,
     <<S_EXCUSED, "other">>, <<S_PAIRED, "paired">> >>

\* lines 225 - 227: re.match(r'(YEAS|NAYS|NOT VOTING|PAIRED|EXCUSED):\s+(\d+)\s*$', line);
\* the index in VoteTypeOf of the word matched, 0 if there is no match
HeaderMatch(line) ==
  LET K == {k \in 1..Len(VoteTypeOf) :
              LET w == VoteTypeOf[k][1] \o <<":">>
                  s == RunEnd(line, Len(w) + 1, Whitespace)
                  d == RunEnd(line, s + 1, Digits)
              IN  /\ MatchLit(line, 1, w)
                  /\ s >= Len(w) + 1
                  /\ d >= s + 1
                  /\ RunEnd(line, d + 1, Whitespace) = Len(line)}
  IN  IF K = {} THEN 0 ELSE SetMin(K)

\* lines 241 - 242: re.match(r'([^\(]+)\((YEA|NAY)\)', line); [ok, name, pair_type]
PairMatch(line) ==
  LET p == Find(line, "(", 1)
  IN  IF p > 1 /\ MatchLit(line, p + 1, S_YEA \o <<")">>)
      THEN [ok |-> TRUE, name |-> SubSeq(line, 1, p - 1), pair_type |-> "YEA"]
      ELSE IF p > 1 /\ MatchLit(line, p + 1, S_NAY \o <<")">>)
      THEN [ok |-> TRUE, name |-> SubSeq(line, 1, p - 1), pair_type |-> "NAY"]
      ELSE [ok |-> FALSE, name |-> <<>>, pair_type |-> ""]

(***************************************************************************)
(* The texts convert_pdf can hand to scrape_vote.                          *)
(***************************************************************************)
S_DateLine == <<"H","O","U","S","E"," ","O","F"," ","D","E","L","E","G","A","T","E","S"," ","3","/","1","2","/","2","0","1","1">>

Endings == { <<>>, <<" ","A","D","O","P","T","E","D">>, <<" ","P","A","S","S","E","D"," "," ">>, <<" ","R","E","J","E","C","T","E","D">> }

\* the tally-summary line
TallyText(ind, y, n, o, exc, ending) ==
  ind \o S_YEAS \o <<":", " ">> \o Dec(y)
      \o S_3sp \o S_NAYS \o <<":", " ">> \o Dec(n)
      \o S_3sp \o S_NOTVOTING \o <<":", " ">> \o Dec(o)
      \o (IF exc > 0 THEN S_3sp \o S_EXCUSED \o <<":", " ">> \o Dec(exc) ELSE <<>>)
      \o ending

\* a category header line
HeaderText(word, n) == word \o <<":", " ">> \o Dec(n)

\* the k-th member of a category
MemberName(letter, k) == <<letter>> \o Dec(k)

\* cnt members, two to a line, gap spaces between the two
NameLines(letter, cnt, gap) ==
  [j \in 1..((cnt + 1) \div 2) |->
     IF 2 * j <= cnt
     THEN MemberName(letter, 2 * j - 1) \o [g \in 1..gap |-> " "]
          \o MemberName(letter, 2 * j)
     ELSE MemberName(letter, 2 * j - 1)]

\* the line of a PAIRED block: k fragments 'name (YEA)' or 'name (NAY)',
\* the odd ones YEA, the even ones NAY
PairedText(k) ==
  Join([f \in 1..k |-> MemberName("P", f) \o <<" ", "(">>
                         \o (IF f % 2 = 1 THEN S_YEA ELSE S_NAY) \o <<")">>],
       S_3sp)

\* header line and name lines of every category; sh.y, sh.n and sh.o are the
\* counts of the tally line, which include the paired members
Blocks(sh) ==
  <<HeaderText(S_YEAS, sh.y)>>
  \o NameLines("Y", sh.y + sh.extra - (sh.paired + 1) \div 2, 3)
  \o <<HeaderText(S_NAYS, sh.n)>> \o NameLines("N", sh.n - sh.paired \div 2, 6)
  \o <<HeaderText(S_NOTVOTING, sh.o)>> \o NameLines("O", sh.o, 4)
  \o (IF sh.exc > 0
      THEN <<HeaderText(S_EXCUSED, sh.exc)>> \o NameLines("E", sh.exc, 3)
      ELSE <<>>)
  \o (IF sh.paired > 0
      THEN <<HeaderText(S_PAIRED, sh.paired), PairedText(sh.paired)>>
      ELSE <<>>)

Shapes ==
  { sh \in [layout : {"date_tally", "motion", "tally_first"},
            indent : { <<>>, <<" ", " ">> }, ending : Endings,
            y : 0..MaxCount, n : 0..MaxCount, o : 0..MaxCount,
            exc : {0, 1},        \* members excused, counted on the tally line
            extra : {0, 1},      \* members listed under YEAS beyond the count
            paired : {0, 1, 2}]  \* fragments on the line of the PAIRED block
      : sh.y >= (sh.paired + 1) \div 2 /\ sh.n >= sh.paired \div 2 }

TextOf(sh) ==
  LET t == TallyText(sh.indent, sh.y, sh.n, sh.o, sh.exc, sh.ending)
      b == Blocks(sh)
  IN  IF sh.layout = "date_tally" THEN <<S_DateLine, t>> \o b
      ELSE IF sh.layout = "motion" THEN <<S_DateLine, <<"O","n"," ","p","a","s","s","a","g","e"," ","o","f"," ","H","B"," ","1">>, <<>>, t>> \o b
      ELSE <<t, S_DateLine>> \o b

(***************************************************************************)
(* scrape_vote (lines 194 - 267), one line of the text per step.           *)
(***************************************************************************)
InitVote ==
  /\ shape \in Shapes
  /\ lines = TextOf(shape)
  /\ idx = 1
  /\ vote_type = "none"
  /\ votes = NoVotes
  /\ date = <<>> /\ bound_date = FALSE
  /\ tally = NoTally /\ bound_tally = FALSE
  /\ vpc = "lines"
  /\ verror = ""
  /\ bill_votes = <<>>
  /\ IdleVersions
  /\ IdleUrl
  /\ IdleRun

\* line 200
Cur == RStrip(lines[idx])

IsDateLine(line) == DateMatch(line) > 0

IsTallyLine(line) == ~IsDateLine(line) /\ TallyMatch(line).ok

IsHeaderLine(line) ==
  ~IsDateLine(line) /\ ~TallyMatch(line).ok /\ HeaderMatch(line) > 0

IsOtherLine(line) ==
  ~IsDateLine(line) /\ ~TallyMatch(line).ok /\ HeaderMatch(line) = 0

\* an exception leaves scrape_vote
Raise(e) ==
  /\ vpc' = "error"
  /\ verror' = e

\* lines 201 - 204
DateLine ==
  /\ vpc = "lines" /\ idx <= Len(lines)
  /\ IsDateLine(Cur)
  /\ IF StrptimeOk(From(Cur, DateMatch(Cur)))
     THEN /\ date' = From(Cur, DateMatch(Cur))
          /\ bound_date' = TRUE
          /\ idx' = idx + 1
          /\ UNCHANGED <<vpc, verror>>
     ELSE /\ Raise("ValueError")
          /\ UNCHANGED <<date, bound_date, idx>>
  /\ UNCHANGED <<shape, lines, vote_type, votes, tally, bound_tally, bill_votes>>
  /\ UNCHANGED <<vars_ver, vars_url, vars_run>>

\* lines[idx - 2] (line 210) as a position of the 1-based lines: a negative
\* Python index counts from the end of the list; 0 stands for IndexError
MotionIndex(i, len) ==
  IF i - 2 >= 1 THEN i - 2
  ELSE IF len + i - 2 >= 1 THEN len + i - 2
  ELSE 0

\* lines 218 - 221
PassedOnlyAdopted(line) == EndsWith(line, S_ADOPTED)

PassedOf(line) == EndsWith(line, S_ADOPTED) \/ EndsWith(line, S_PASSED)

\* lines 209 - 223
TallyLine ==
  /\ vpc = "lines" /\ idx <= Len(lines)
  /\ IsTallyLine(Cur)
  /\ IF MotionIndex(idx, Len(lines)) = 0
     THEN /\ Raise("IndexError")
          /\ UNCHANGED <<tally, bound_tally, idx>>
     ELSE /\ tally' = [motion |-> Strip(lines[MotionIndex(idx, Len(lines))]),
                       passed |-> PassedOf(Cur),
                       yes_count |-> TallyMatch(Cur).yes,
                       no_count |-> TallyMatch(Cur).no,
                       other_count |-> TallyMatch(Cur).other
                                       + (IF ExcusedMatch(Cur).ok
                                          THEN ExcusedMatch(Cur).val ELSE 0)]
          /\ bound_tally' = TRUE
          /\ idx' = idx + 1
          /\ UNCHANGED <<vpc, verror>>
  /\ UNCHANGED <<shape, lines, vote_type, votes, date, bound_date, bill_votes>>
  /\ UNCHANGED <<vars_ver, vars_url, vars_run>>

\* lines 225 - 234
HeaderLine ==
  /\ vpc = "lines" /\ idx <= Len(lines)
  /\ IsHeaderLine(Cur)
  /\ vote_type' = VoteTypeOf[HeaderMatch(Cur)][2]
  /\ idx' = idx + 1
  /\ UNCHANGED <<shape, lines, votes, date, bound_date, tally, bound_tally, vpc,
                 verror, bill_votes>>
  /\ UNCHANGED <<vars_ver, vars_url, vars_run>>

\* n copies of x
Copies(x, n) == [k \in 1..n |-> x]

\* lines 236 - 247: every non-empty piece appends what the pattern finds at
\* the start of the whole line
PairedLine ==
  /\ vpc = "lines" /\ idx <= Len(lines)
  /\ IsOtherLine(Cur)
  /\ vote_type = "paired"
  /\ IF Pieces(Cur) # <<>> /\ ~PairMatch(Cur).ok
     THEN /\ Raise("AttributeError")
          /\ UNCHANGED <<votes, idx>>
     ELSE /\ votes' =
               IF Pieces(Cur) = <<>> THEN votes
               ELSE IF PairMatch(Cur).pair_type = "YEA"
               THEN [votes EXCEPT !.yes = @ \o Copies(Strip(PairMatch(Cur).name),
                                                      Len(Pieces(Cur)))]
               ELSE [votes EXCEPT !.no = @ \o Copies(Strip(PairMatch(Cur).name),
                                                     Len(Pieces(Cur)))]
          /\ idx' = idx + 1
          /\ UNCHANGED <<vpc, verror>>
  /\ UNCHANGED <<shape, lines, vote_type, date, bound_date, tally, bound_tally,
                 bill_votes>>
  /\ UNCHANGED <<vars_ver, vars_url, vars_run>>

\* Pieces without the test of lines 251 - 252
PiecesKeepEmpty(line) ==
  LET raw == SplitStr(line, S_3sp)
  IN  [k \in 1..Len(raw) |-> Strip(raw[k])]

\* lines 249 - 252: the names a line adds to the current category
NamesOf(line) == Pieces(line)

\* lines 248 - 253
NameLine ==
  /\ vpc = "lines" /\ idx <= Len(lines)
  /\ IsOtherLine(Cur)
  /\ vote_type \in {"yes", "no", "other"}
  /\ votes' = [votes EXCEPT ![vote_type] = @ \o NamesOf(Cur)]
  /\ idx' = idx + 1
  /\ UNCHANGED <<shape, lines, vote_type, date, bound_date, tally, bound_tally,
                 vpc, verror, bill_votes>>
  /\ UNCHANGED <<vars_ver, vars_url, vars_run>>

\* vote_type is None: neither branch of lines 236 - 253 is taken
SkippedLine ==
  /\ vpc = "lines" /\ idx <= Len(lines)
  /\ IsOtherLine(Cur)
  /\ vote_type = "none"
  /\ idx' = idx + 1
  /\ UNCHANGED <<shape, lines, vote_type, votes, date, bound_date, tally,
                 bound_tally, vpc, verror, bill_votes>>
  /\ UNCHANGED <<vars_ver, vars_url, vars_run>>

\* lines 255 - 256 read date, motion, passed and the counts: a name no line
\* has bound raises UnboundLocalError
VoteUnbound ==
  /\ vpc = "lines" /\ idx > Len(lines)
  /\ ~bound_date \/ ~bound_tally
  /\ Raise("UnboundLocalError")
  /\ UNCHANGED <<shape, lines, idx, vote_type, votes, date, bound_date, tally,
                 bound_tally, bill_votes>>
  /\ UNCHANGED <<vars_ver, vars_url, vars_run>>

\* the asserts compiled away
AssertsSkipped == TRUE

\* lines 263 - 265
AssertsHold ==
  /\ Len(votes.yes) = tally.yes_count
  /\ Len(votes.no) = tally.no_count
  /\ Len(votes.other) = tally.other_count

\* lines 263 - 265: an assert fails
VoteAssertFails ==
  /\ vpc = "lines" /\ idx > Len(lines)
  /\ bound_date /\ bound_tally
  /\ ~AssertsHold
  /\ Raise("AssertionError")
  /\ UNCHANGED <<shape, lines, idx, vote_type, votes, date, bound_date, tally,
                 bound_tally, bill_votes>>
  /\ UNCHANGED <<vars_ver, vars_url, vars_run>>

\* lines 255 - 267
AddVote ==
  /\ vpc = "lines" /\ idx > Len(lines)
  /\ bound_date /\ bound_tally
  /\ AssertsHold
  /\ bill_votes' = Append(bill_votes,
       [chamber |-> "lower", date |-> date, motion |-> tally.motion,
        passed |-> tally.passed, yes_count |-> tally.yes_count,
        no_count |-> tally.no_count, other_count |-> tally.other_count,
        yes_votes |-> votes.yes, no_votes |-> votes.no,
        other_votes |-> votes.other])
  /\ vpc' = "done"
  /\ UNCHANGED <<shape, lines, idx, vote_type, votes, date, bound_date, tally,
                 bound_tally, verror>>
  /\ UNCHANGED <<vars_ver, vars_url, vars_run>>

NextVote ==
  \/ DateLine
  \/ TallyLine
  \/ HeaderLine
  \/ PairedLine
  \/ NameLine
  \/ SkippedLine
  \/ VoteUnbound
  \/ VoteAssertFails
  \/ AddVote

SpecVote == InitVote /\ [][NextVote]_vars

(***************************************************************************)
(* scrape (lines 45 - 79): _get_version_filenames (lines 269 - 309), then  *)
(* scrape_bill for every link of the list pages (lines 81 - 187, the       *)
(* handling of an incomplete detail page).  scrape is called MaxCalls      *)
(* times in a row; the files under /tmp outlive the calls.                 *)
(***************************************************************************)
\* what the ftp server lists under publicdocs/<session>/RS/<chamber_name>/:
\* the dated folders (line 289) with their file names (line 298)
Listing(s, c) ==
  LET b == IF c = "lower" THEN <<"H">> ELSE <<"S">>
  IN  IF s = S_session
      THEN << [d |-> S_folder1,
               files |-> << b \o <<"B","1"," ","i","n","t","r",".","w","p","d">>, b \o <<"B","1"," ","i","n","t","r",".","h","t","m">> >>],
              [d |-> S_folder2,
               files |-> << b \o <<"B","1"," ","e","n","g",".","W","P","D">>, b \o <<"C","R","2"," ","i","n","t","r",".","w","p","d">> >>] >>
      ELSE << [d |-> S_folder2, files |-> << b \o <<"B","1"," ","s","u","b",".","w","p","d">> >>] >>

\* lines 284 - 306: the mapping built from the listing; a file whose name
\* ends with .wpd in any case is entered as (folder, name without the
\* extension) under the lower-cased first word of its name
BuiltIndex(s, c) ==
  LET L == Listing(s, c)
      IsWpd(fn) == Len(fn) >= 4 /\ Lower(SubSeq(fn, Len(fn) - 3, Len(fn))) = <<".","w","p","d">>
      Of(k) == LET wpd == SelectSeq(L[k].files, IsWpd)
               IN  [j \in 1..Len(wpd) |-> <<L[k].d, SubSeq(wpd[j], 1, Len(wpd[j]) - 4)>>]
      all == Flatten([k \in 1..Len(L) |-> Of(k)])
      KeyOf(e) == Lower(Split1(e[2], " ")[1])
  IN  [key \in {KeyOf(all[j]) : j \in 1..Len(all)} |->
         LET Mine(e) == KeyOf(e) = key IN SelectSeq(all, Mine)]

\* line 87: self.bill_types[bill_id.split()[0][1:]]
BillTypeOf(b) ==
  LET w == Tail(SplitId(b)[1])
  IN  IF w = <<"B">> THEN "bill"
      ELSE IF w = <<"R">> THEN "resolution"
      ELSE IF w = <<"C", "R">> THEN "concurrent resolution"
      ELSE "joint resolution"

\* a call of scrape(chamber, session) is about to run line 53; the cache
\* files are missing, hold what an earlier call stored, or are cut short
InitScrape ==
  /\ cachefile \in [{"lower", "upper"} ->
                      {[state |-> "absent", data |-> <<>>],
                       [state |-> "corrupt", data |-> <<>>]}
                      \cup {[state |-> "valid", data |-> BuiltIndex(S_session, c)] :
                              c \in {"lower", "upper"}}]
  /\ \A c \in {"lower", "upper"} :
        cachefile[c].state = "valid" => cachefile[c].data = BuiltIndex(S_session, c)
  /\ sc_session \in {S_session, <<"2","0","1","2">>}
  /\ sc_chamber \in {"lower", "upper"}
  /\ links \in DistinctSeqs({<<"H","B"," ","1">>, <<"H","C","R"," ","2">>, <<"H","R"," ","3">>}, MaxLinks)
  /\ vfn = <<>> /\ vfn_default = FALSE
  /\ traversals = [c \in {"lower", "upper"} |-> 0]
  /\ writes = 0
  /\ spc = "get"
  /\ link_i = 1 /\ bill_html = "" /\ fetches = 0 /\ saved = <<>>
  /\ call_no = 1
  /\ IdleVersions
  /\ IdleUrl
  /\ IdleVote

\* LoadCache that lists the ftp server again and rewrites the file
LoadCacheAndRebuild ==
  /\ spc = "get"
  /\ cachefile[sc_chamber].state = "valid"
  /\ vfn' = cachefile[sc_chamber].data
  /\ vfn_default' = FALSE
  /\ traversals' = [traversals EXCEPT ![sc_chamber] = @ + 1]
  /\ writes' = writes + 1
  /\ spc' = "bills"
  /\ UNCHANGED <<cachefile, sc_session, sc_chamber, links, link_i,
                 bill_html, fetches, saved, call_no>>
  /\ UNCHANGED <<vars_ver, vars_url, vars_vote>>

\* lines 275 - 282: the file of the chamber opens and json.load reads it
LoadCache ==
  /\ spc = "get"
  /\ cachefile[sc_chamber].state = "valid"
  /\ vfn' = cachefile[sc_chamber].data
  /\ vfn_default' = FALSE
  /\ spc' = "bills"
  /\ UNCHANGED <<cachefile, sc_session, sc_chamber, traversals, writes, links, link_i,
                 bill_html, fetches, saved, call_no>>
  /\ UNCHANGED <<vars_ver, vars_url, vars_vote>>

\* lines 275 - 280: the file opens, json.load raises ValueError, which the
\* except IOError of line 277 does not catch
LoadCorrupt ==
  /\ spc = "get"
  /\ cachefile[sc_chamber].state = "corrupt"
  /\ spc' = "error"
  /\ UNCHANGED <<cachefile, sc_session, sc_chamber, vfn, vfn_default, traversals,
                 writes, links, link_i, bill_html, fetches, saved, call_no>>
  /\ UNCHANGED <<vars_ver, vars_url, vars_vote>>

\* lines 275 - 278 and 284 - 309: open raises IOError; the listing is
\* traversed, the mapping put in use and dumped to the file of the chamber
BuildAndStore ==
  /\ spc = "get"
  /\ cachefile[sc_chamber].state = "absent"
  /\ traversals' = [traversals EXCEPT ![sc_chamber] = @ + 1]
  /\ vfn' = BuiltIndex(sc_session, sc_chamber)
  /\ vfn_default' = TRUE
  /\ cachefile' = [cachefile EXCEPT ![sc_chamber] =
                     [state |-> "valid", data |-> BuiltIndex(sc_session, sc_chamber)]]
  /\ writes' = writes + 1
  /\ spc' = "bills"
  /\ UNCHANGED <<sc_session, sc_chamber, links, link_i, bill_html, fetches, saved,
                 call_no>>
  /\ UNCHANGED <<vars_ver, vars_url, vars_vote>>

\* lines 62 - 66 (75 - 79) and 82: scrape_bill is called for the next link
\* and fetches the detail page, which comes complete or incomplete
FetchPage ==
  /\ spc = "bills"
  /\ link_i <= Len(links)
  /\ bill_html' \in {"complete", "incomplete"}
  /\ fetches' = 1
  /\ spc' = "fetched"
  /\ UNCHANGED <<cachefile, sc_session, sc_chamber, vfn, vfn_default, traversals,
                 writes, links, link_i, saved, call_no>>
  /\ UNCHANGED <<vars_ver, vars_url, vars_vote>>

\* lines 108 - 113: 'SPONSOR(S)' is not in the html of a resolution; the
\* page is fetched once more
Retry ==
  /\ spc = "fetched"
  /\ BillTypeOf(links[link_i]) # "bill"
  /\ bill_html = "incomplete"
  /\ bill_html' \in {"complete", "incomplete"}
  /\ fetches' = fetches + 1
  /\ spc' = "refetched"
  /\ UNCHANGED <<cachefile, sc_session, sc_chamber, vfn, vfn_default, traversals,
                 writes, links, link_i, saved, call_no>>
  /\ UNCHANGED <<vars_ver, vars_url, vars_vote>>

\* GiveUp with a raise in place of the return of line 116
GiveUpRaises ==
  /\ spc = "refetched"
  /\ bill_html = "incomplete"
  /\ spc' = "error"
  /\ UNCHANGED <<cachefile, sc_session, sc_chamber, vfn, vfn_default, traversals,
                 writes, links, link_i, bill_html, fetches, saved, call_no>>
  /\ UNCHANGED <<vars_ver, vars_url, vars_vote>>

\* lines 114 - 116: 'SPONSOR(S)' is not in the second html either;
\* scrape_bill returns and the loop of scrape takes the next link
GiveUp ==
  /\ spc = "refetched"
  /\ bill_html = "incomplete"
  /\ link_i' = link_i + 1
  /\ spc' = "bills"
  /\ UNCHANGED <<cachefile, sc_session, sc_chamber, vfn, vfn_default, traversals,
                 writes, links, bill_html, fetches, saved, call_no>>
  /\ UNCHANGED <<vars_ver, vars_url, vars_vote>>

\* lines 118 - 187: the rest of scrape_bill up to save_bill, for a bill
\* (line 108), for a resolution whose html holds 'SPONSOR(S)' (line 109) and
\* for one whose second html holds it (line 114)
SaveBill ==
  /\ \/ /\ spc = "fetched"
        /\ BillTypeOf(links[link_i]) = "bill" \/ bill_html = "complete"
     \/ /\ spc = "refetched"
        /\ bill_html = "complete"
  /\ saved' = Append(saved, links[link_i])
  /\ link_i' = link_i + 1
  /\ spc' = "bills"
  /\ UNCHANGED <<cachefile, sc_session, sc_chamber, vfn, vfn_default, traversals,
                 writes, links, bill_html, fetches, call_no>>
  /\ UNCHANGED <<vars_ver, vars_url, vars_vote>>

\* line 79: the loops are through and scrape returns; scrape is called
\* again, for any session and chamber
ScrapeAgain ==
  /\ spc = "bills"
  /\ link_i > Len(links)
  /\ call_no < MaxCalls
  /\ call_no' = call_no + 1
  /\ sc_session' \in {S_session, <<"2","0","1","2">>}
  /\ sc_chamber' \in {"lower", "upper"}
  /\ spc' = "get"
  /\ link_i' = 1 /\ bill_html' = "" /\ fetches' = 0 /\ saved' = <<>>
  /\ UNCHANGED <<cachefile, vfn, vfn_default, traversals, writes, links>>
  /\ UNCHANGED <<vars_ver, vars_url, vars_vote>>

NextScrape ==
  \/ LoadCache
  \/ LoadCorrupt
  \/ BuildAndStore
  \/ FetchPage
  \/ Retry
  \/ GiveUp
  \/ SaveBill
  \/ ScrapeAgain

SpecScrape == InitScrape /\ [][NextScrape]_vars

(***************************************************************************)
(* Properties of scrape_vote.                                              *)
(***************************************************************************)
\* C8: every vote added to the bill has as many names in yes_votes,
\* no_votes and other_votes as yes_count, no_count and other_count say.
C8_AddedVotesConsistent ==
  \A k \in 1..Len(bill_votes) :
     /\ Len(bill_votes[k].yes_votes) = bill_votes[k].yes_count
     /\ Len(bill_votes[k].no_votes) = bill_votes[k].no_count
     /\ Len(bill_votes[k].other_votes) = bill_votes[k].other_count

\* a vote with members in all three lists was added
C8_Witness ==
  /\ Len(bill_votes) = 1
  /\ bill_votes[1].yes_count >= 2
  /\ bill_votes[1].no_count >= 1
  /\ bill_votes[1].other_count >= 2

\* the text C9 speaks of: a date line, the tally-summary line, then the
\* blocks of YEAS, NAYS and NOT VOTING with exactly as many names as counted
ClaimText ==
  /\ shape.layout = "date_tally"
  /\ shape.ending = <<>>
  /\ shape.exc = 0 /\ shape.extra = 0 /\ shape.paired = 0

\* the text is parsed without a failure into the tally the counts announce
ParsedAsCounted ==
  /\ vpc # "error"
  /\ (vpc = "lines" /\ idx > Len(lines)) =>
        /\ bound_date /\ bound_tally
        /\ Len(votes.yes) = tally.yes_count
        /\ Len(votes.no) = tally.no_count
        /\ Len(votes.other) = tally.other_count
  /\ vpc = "done" =>
        /\ Len(bill_votes) = 1
        /\ bill_votes[1].yes_count = shape.y
        /\ bill_votes[1].no_count = shape.n
        /\ bill_votes[1].other_count = shape.o
        /\ Len(bill_votes[1].yes_votes) = shape.y
        /\ Len(bill_votes[1].no_votes) = shape.n
        /\ Len(bill_votes[1].other_votes) = shape.o

\* C9 as stated: the tally-summary line is 'YEAS: y   NAYS: n   NOT VOTING: o'
\* from its first character on.
C9_AsStated == (ClaimText /\ shape.indent = <<>>) => ParsedAsCounted

\* C9: for every triple of counts a text made of a date line, a
\* tally-summary line of leading whitespace followed by
\* 'YEAS: y   NAYS: n   NOT VOTING: o', and the category blocks with exactly
\* y, n and o names is parsed without a failure into a tally with these
\* counts and member lists of these lengths.
C9_IndentedTallyParsed == (ClaimText /\ shape.indent # <<>>) => ParsedAsCounted

\* such a text with the largest counts was parsed and its vote added
C9_Witness ==
  /\ ClaimText /\ shape.indent # <<>>
  /\ vpc = "done"
  /\ shape.y = MaxCount /\ shape.n = MaxCount /\ shape.o = MaxCount

\* the last tally-summary line of the text
LastTallyLine ==
  LET T == {i \in 1..Len(lines) : /\ DateMatch(RStrip(lines[i])) = 0
                                  /\ TallyMatch(RStrip(lines[i])).ok}
  IN  RStrip(lines[SetMax(T)])

\* C10: the vote has passed = TRUE exactly when the tally-summary line,
\* trailing whitespace removed, ends with ADOPTED or with PASSED.
C10_PassedIffAdoptedOrPassed ==
  \A k \in 1..Len(bill_votes) :
     bill_votes[k].passed <=> (\/ EndsWith(LastTallyLine, S_ADOPTED)
                                \/ EndsWith(LastTallyLine, S_PASSED))

\* a vote was added as passed from a tally line that ends with PASSED and
\* trailing blanks
C10_Witness ==
  /\ Len(bill_votes) = 1
  /\ bill_votes[1].passed
  /\ EndsWith(LastTallyLine, S_PASSED)
  /\ ~EndsWith(shape.ending, S_PASSED)

\* C11: when the text is read to its end and the length of a member list
\* differs from its count, scrape_vote ends with a VoteParseError and adds
\* no vote to the bill.
C11_MismatchIsVoteParseError ==
  (/\ idx > Len(lines) /\ vpc # "lines"
   /\ bound_date /\ bound_tally
   /\ \/ Len(votes.yes) # tally.yes_count
      \/ Len(votes.no) # tally.no_count
      \/ Len(votes.other) # tally.other_count)
  => /\ vpc = "error" /\ verror = "VoteParseError"
     /\ bill_votes = <<>>

\* the names of the fragments of a line that carry the annotation t, each
\* fragment read by itself
FragmentNames(line, t) ==
  LET Annotated(p) == PairMatch(p).pair_type = t
      frags == SelectSeq(Pieces(line), Annotated)
  IN  [k \in 1..Len(frags) |-> Strip(PairMatch(frags[k]).name)]

\* C15: under a PAIRED header a line of k fragments 'name (YEA|NAY)' adds
\* k names: the name of each YEA fragment to the yes list and the name of
\* each NAY fragment to the no list.
C15_Step ==
  (/\ vpc = "lines" /\ idx <= Len(lines)
   /\ IsOtherLine(Cur) /\ vote_type = "paired"
   /\ \A k \in 1..Len(Pieces(Cur)) : PairMatch(Pieces(Cur)[k]).ok)
  => /\ votes'.yes = votes.yes \o FragmentNames(Cur, "YEA")
     /\ votes'.no = votes.no \o FragmentNames(Cur, "NAY")
     /\ votes'.other = votes.other

C15_EachFragmentRouted == [][C15_Step]_vars

\* the list votes holds for a category; a category without a list has none
ListOf(v, t) == IF t \in DOMAIN v THEN v[t] ELSE <<>>

\* the category a header line stands for, read off its first word
HeaderCategory(line) ==
  IF MatchLit(line, 1, S_YEAS) THEN "yes"
  ELSE IF MatchLit(line, 1, S_NAYS) THEN "no"
  ELSE IF MatchLit(line, 1, S_PAIRED) THEN "paired"
  ELSE "other"

\* what C18 says of one line, for the categories in T
LineRouted(T) ==
  (vpc = "lines" /\ idx <= Len(lines) /\ vpc' = "lines") =>
    /\ IsHeaderLine(Cur) => vote_type' = HeaderCategory(Cur) /\ votes' = votes
    /\ (IsDateLine(Cur) \/ IsTallyLine(Cur)) =>
          vote_type' = vote_type /\ votes' = votes
    /\ IsOtherLine(Cur) =>
          /\ vote_type' = vote_type
          /\ vote_type = "none" => votes' = votes
          /\ vote_type \in T =>
                \A c \in {"yes", "no", "other", "paired"} :
                   ListOf(votes', c) =
                     IF c = vote_type THEN ListOf(votes, c) \o Pieces(Cur)
                     ELSE ListOf(votes, c)

\* C18 as stated: the lines under every header, the PAIRED one included,
\* append their names to the list of the header's category.
C18_AsStated == [][LineRouted({"yes", "no", "other", "paired"})]_vars

\* C18: a header line sets vote_type to yes, no, other, other or paired and
\* adds no name; date and tally-summary lines change neither vote_type nor
\* the lists; any other line appends its non-empty names to the list of the
\* category of the most recent header when that header is YEAS, NAYS,
\* NOT VOTING or EXCUSED, and appends nothing before the first header.
C18_LinesRouted == [][LineRouted({"yes", "no", "other"})]_vars

\* the text was read to its end; names stand in all three lists, those of
\* the EXCUSED block behind those of the NOT VOTING block
C18_Witness ==
  /\ vpc = "lines" /\ idx > Len(lines)
  /\ shape.exc = 1 /\ shape.paired = 0 /\ shape.layout = "motion"
  /\ Len(votes.yes) >= 2 /\ Len(votes.no) >= 2
  /\ Len(votes.other) = shape.o + 1 /\ shape.o >= 1
  /\ votes.other[Len(votes.other)] = MemberName("E", 1)

\* the position of the tally-summary line in the text
TallyPos ==
  SetMax({i \in 1..Len(lines) : /\ DateMatch(RStrip(lines[i])) = 0
                                /\ TallyMatch(RStrip(lines[i])).ok})

\* C19: the motion is the stripped line two positions before the
\* tally-summary line, what a window of the last two lines holds: nothing
\* when the tally-summary line is the first or the second line of the text,
\* never a line that follows it.
C19_MotionIsTwoLinesEarlier ==
  bound_tally =>
    tally.motion = IF TallyPos >= 3 THEN Strip(lines[TallyPos - 2]) ELSE <<>>

\* C16: every descriptor of the legacy-index adapter carries the name of a
\* pair of the bill's index entry and the url made of the remote root, the
\* chamber folder, that pair's folder and that pair's quoted filename with
\* .wpd, whatever pairs stand before it in the entry.
C16_UrlFromOwnPairOnly ==
  \A m \in 1..Len(res) :
     origin[m] = "wpd" =>
        \E i \in 1..Len(BillFiles) :
           /\ res[m].name = BillFiles[i][2]
           /\ res[m].url = WpdNextUrl(WpdRoot(session), chamber,
                                      BillFiles[i][1], BillFiles[i][2])

\* C17: scrape_versions leaves the keys of the index and the pairs of every
\* key as they are, and for a bill without pairs in the index both index
\* adapters find no candidate, whether the index was built or loaded.
C17_Miss ==
  (/\ pc \in {"guess", "wpd"}
   /\ \/ NormalId(bill_id) \notin DOMAIN version_filenames
      \/ version_filenames[NormalId(bill_id)] = <<>>)
  => filenames = <<>>

C17_IndexReadOnly ==
  [][version_filenames' = version_filenames]_vars /\ []C17_Miss

(***************************************************************************)
(* Properties of _get_version_filenames and of scrape_bill.                *)
(***************************************************************************)
\* C12: with a cache file present for the chamber _get_version_filenames
\* puts its content in use, lists nothing and writes nothing; without one it
\* traverses the listing, puts the built mapping in use and stores it, so
\* that no chamber is traversed a second time.
C12_Step ==
  spc = "get" =>
    /\ cachefile[sc_chamber].state = "valid" =>
          /\ vfn' = cachefile[sc_chamber].data
          /\ traversals' = traversals
          /\ writes' = writes /\ cachefile' = cachefile
    /\ cachefile[sc_chamber].state = "absent" =>
          /\ traversals' = [traversals EXCEPT ![sc_chamber] = @ + 1]
          /\ vfn' = BuiltIndex(sc_session, sc_chamber)
          /\ cachefile'[sc_chamber] = [state |-> "valid", data |-> vfn']

C12_TraversedOnce ==
  spc # "idle" => \A c \in DOMAIN traversals : traversals[c] <= 1

C12_CacheUsedWithoutTraversal == [][C12_Step]_vars /\ []C12_TraversedOnce

\* a later call of scrape for a chamber an earlier call built the index of:
\* the index in use was loaded, the chamber was traversed once
C12_Witness ==
  /\ call_no >= 2 /\ spc = "bills"
  /\ ~vfn_default
  /\ traversals[sc_chamber] = 1
  /\ writes = 1

\* C13: when the cache file of the chamber is missing or cannot be parsed,
\* _get_version_filenames raises nothing and puts the mapping rebuilt from
\* the listing in use.
C13_Step ==
  (spc = "get" /\ cachefile[sc_chamber].state \in {"absent", "corrupt"})
  => /\ spc' = "bills"
     /\ vfn' = BuiltIndex(sc_session, sc_chamber)

C13_LoadFailureRebuilds == [][C13_Step]_vars

\* C14: after _get_version_filenames(session, chamber) the index in use is
\* the one of the listing of that session and chamber, whatever calls came
\* before.
C14_IndexOfSessionAndChamber ==
  spc \in {"bills", "fetched", "refetched"} =>
     vfn = BuiltIndex(sc_session, sc_chamber)

\* C20: an incomplete detail page of a resolution is fetched once more; a
\* complete second page has the bill saved, an incomplete one has the bill
\* skipped without an error, and either way the loop takes the next link;
\* no detail page is fetched more than twice for one bill.
C20_Step ==
  /\ (spc = "fetched" /\ BillTypeOf(links[link_i]) # "bill"
      /\ bill_html = "incomplete")
     => /\ fetches' = 2 /\ spc' = "refetched"
        /\ saved' = saved /\ link_i' = link_i
  /\ (spc = "refetched" /\ bill_html = "complete")
     => /\ saved' = Append(saved, links[link_i])
        /\ spc' = "bills" /\ link_i' = link_i + 1
  /\ (spc = "refetched" /\ bill_html = "incomplete")
     => /\ saved' = saved
        /\ spc' = "bills" /\ link_i' = link_i + 1

C20_AtMostTwoFetches ==
  /\ fetches <= 2
  /\ spc = "refetched" => fetches = 2
  /\ spc = "fetched" => fetches = 1

====
